---- MODULE Spec2Model ----
(***************************************************************************)
(* Model of the offline player's library and playback coordinator          *)
(* (src/App.tsx, second App component, lines 304-636) over the IndexedDB   *)
(* track store (src/services/db.ts).                                       *)
(*                                                                         *)
(* React state is modelled twice: the state variables hold the latest      *)
(* value every setState has produced, `snap` holds the values of the last  *)
(* committed render, which is what the handlers' closures read.  Render    *)
(* commits the pending state and runs the effects whose dependencies       *)
(* changed.  A store call first awaits openDB(); its request then          *)
(* completes in the order the transactions were created (IndexedDB runs    *)
(* overlapping readwrite transactions in creation order).                  *)
(*                                                                         *)
(* Values: a track id, an object URL and a blob are naturals, 0 standing   *)
(* for null / '' / undefined.  View-only state that no handler of the      *)
(* coordinator reads (volume, currentTime, duration, isDragging, editingTrackId, *)
(* the Bluetooth device) is not modelled.                                  *)
(***************************************************************************)
EXTENDS Naturals, Integers, Sequences, FiniteSets, TLC

\* ---- bounds and inputs of the model ----
\* intents (user actions and the sink's ended event) handled in one run
MaxIntents == 3
\* the keys of the records earlier sessions left in the store
StoredKeys == {1, 2}
\* the number of files an ingest batch may hold
BatchSizes == {1, 2}

VARIABLES
    store,               \* the object store 'tracks': a set of records, one per key
    nextKey,             \* the store's autoIncrement key generator
    tracks,              \* useState<Track[]>
    currentTrackId,      \* useState<number | null>, 0 = null
    currentTrackUrl,     \* useState<string>, 0 = ''
    isPlaying,           \* useState<boolean>
    isNowPlayingVisible, \* useState<boolean>
    isUploading,         \* useState<boolean>
    snap,                \* the values of the last committed render
    audio,               \* the <audio> element: its src, the last call on it
                         \* ("restart" is currentTime = 0 followed by play()),
                         \* whether the promise of its last play() was fulfilled
                         \* (ok) and whether the caller attached a catch to it
    nextUrl,             \* the next object URL createObjectURL returns
    revoked,             \* URLs revokeObjectURL was called on
    reRevoked,           \* URLs revokeObjectURL was called on more than once
    conn,                \* db.ts's module variable `db` is set (the connection)
    opens,               \* indexedDB.open requests made so far
    opening,             \* store calls waiting for their open request, oldest first
    ops,                 \* store requests in flight, oldest first
    batches,             \* per ingest batch: its Promise.all, with the keys the
                         \* store assigned and the files it stored under them
    logged,              \* a rejection reached a catch and console.error
    unhandled,           \* a rejection left its async handler uncaught
    edited,              \* <<id, field>> of every edit the store accepted
    pending,             \* what the intents handled since the last render did
    last,                \* the step taken last
    intents,             \* intents handled so far
    editor               \* the track editor: editingTrackId (0 = null), the
                         \* files picked in it, the preview URLs its effect
                         \* holds for cleanup, and of the preview URLs 1..created
                         \* it made, the ones revoked and revoked again

vars == <<store, nextKey, tracks, currentTrackId, currentTrackUrl, isPlaying,
          isNowPlayingVisible, isUploading, snap, audio,
          nextUrl, revoked, reRevoked, conn, opens, opening, ops, batches,
          logged, unhandled, edited, pending, last, intents, editor>>

react == <<tracks, currentTrackId, currentTrackUrl, isPlaying,
           isNowPlayingVisible, isUploading>>
playback == <<currentTrackId, currentTrackUrl, isPlaying>>
urls == <<nextUrl, revoked, reRevoked>>
db == <<store, nextKey>>
notes == <<logged, unhandled, edited>>
idb == <<conn, opens, opening>>

\* ---- records ----
Track(id, file, coverArt, video) ==
    [id |-> id, name |-> file, file |-> file, coverArt |-> coverArt, video |-> video]

NoTrack == Track(0, 0, 0, 0)

Ids(ts) == {ts[i].id : i \in DOMAIN ts}

\* tracks.find(t => t.id === id)
Find(ts, id) ==
    IF \E i \in DOMAIN ts : ts[i].id = id
    THEN ts[CHOOSE i \in DOMAIN ts :
                ts[i].id = id /\ \A j \in DOMAIN ts : ts[j].id = id => i <= j]
    ELSE NoTrack

\* tracks.findIndex(t => t.id === id), 0-based, -1 when absent
FindIndex(ts, id) ==
    IF \E i \in DOMAIN ts : ts[i].id = id
    THEN (CHOOSE i \in DOMAIN ts :
                ts[i].id = id /\ \A j \in DOMAIN ts : ts[j].id = id => i <= j) - 1
    ELSE -1

FilterOut(ts, id) == SelectSeq(ts, LAMBDA t : t.id # id)

\* the filter dropped: the deleted track stays in the list
DeleteFilterKeeps(ts, id) == ts

\* tracks.filter(track => track.id !== id)
DeleteFilter(ts, id) == FilterOut(ts, id)

\* prevTracks.map(t => t.id === updated.id ? updated : t)
MapReplace(ts, updated) ==
    [i \in DOMAIN ts |-> IF ts[i].id = updated.id THEN updated ELSE ts[i]]

\* ---- the store ----
RECURSIVE SortById(_)
SortById(S) ==
    IF S = {} THEN <<>>
    ELSE LET m == CHOOSE r \in S : \A q \in S : r.id <= q.id
         IN <<m>> \o SortById(S \ {m})

\* store.getAll(): every record, in ascending key order
GetAll(st) == SortById(st)

\* the key generator stuck: the next add gets the same key again
KeyReused(k) == k

\* autoIncrement: the key generator after it has handed out key k
KeyAfter(k) == k + 1

\* store.put(track): replaces the record under track.id, or creates it
Put(st, rec) == {r \in st : r.id # rec.id} \cup {rec}

\* store.delete(id): no-op when the key is absent
Delete(st, id) == {r \in st : r.id # id}


\* ---- object URLs ----
\* URL.revokeObjectURL(url); guarded in the source by `if (url)`
Revoke(url) ==
    IF url # 0
    THEN /\ revoked' = revoked \cup {url}
         /\ reRevoked' = IF url \in revoked THEN reRevoked \cup {url} ELSE reRevoked
    ELSE UNCHANGED <<revoked, reRevoked>>

Created == 1 .. (nextUrl - 1)
Live == Created \ revoked

\* ---- store requests in flight ----
Op(kind, id, batch, rec, ts, patch, active, url) ==
    [kind |-> kind, id |-> id, batch |-> batch, rec |-> rec, tracks |-> ts,
     patch |-> patch, active |-> active, url |-> url, quiet |-> TRUE]

GetAllOp == Op("getAll", 0, 0, NoTrack, <<>>, {}, FALSE, 0)
AddOp(b, i) == Op("add", i, b, NoTrack, <<>>, {}, FALSE, 0)
DelOp(id, ts, active, url) == Op("del", id, 0, NoTrack, ts, {}, active, url)
PutOp(rec, patch) == Op("put", rec.id, 0, rec, <<>>, patch, FALSE, 0)

\* a store call starts with openDB(): with the connection set its request joins
\* the store's queue, otherwise it asks for a connection of its own and waits
Requests(new) ==
    IF conn
    THEN /\ ops' = ops \o new
         /\ UNCHANGED <<opening, opens>>
    ELSE /\ opening' = opening \o new
         /\ opens' = opens + Len(new)
         /\ UNCHANGED ops

\* every store call started and not settled, waiting for its connection or queued
InFlight == ops \o opening

\* a playback intent was handled while these deletes were in flight
Disturb(q) == [i \in DOMAIN q |-> [q[i] EXCEPT !.quiet = FALSE]]

\* the step taken last: an intent handled, a render, or a store request settled
\* (then with what the request's handler had done before its await)
Step(kind, id, ok) ==
    [kind |-> kind, id |-> id, ok |-> ok, active |-> FALSE, url |-> 0, quiet |-> TRUE,
     batch |-> <<>>]
Done(op, ok) ==
    [kind |-> op.kind, id |-> op.id, ok |-> ok, active |-> op.active, url |-> op.url,
     quiet |-> op.quiet, batch |-> <<>>]
\* a render: the intents it commits and the URL it assigned to the sink's src
\* (0 when it assigned none)
Rendered(batch, url) == [Step("render", 0, TRUE) EXCEPT !.batch = batch, !.url = url]

\* what an intent does to the playback state, for `pending`
ToggleTag == IF snap.currentTrackId = 0 THEN "none" ELSE "toggle"
SelectTag(id) ==
    IF Find(snap.tracks, id) = NoTrack THEN "none"
    ELSE IF id # snap.currentTrackId THEN "switch" ELSE ToggleTag
Noted(tag) == IF tag = "none" THEN pending ELSE Append(pending, tag)

Snapshot ==
    [tracks |-> tracks, currentTrackId |-> currentTrackId,
     currentTrackUrl |-> currentTrackUrl, isPlaying |-> isPlaying]

\* ---- mount ----
InitFrom(records) ==
    /\ store = records
    /\ nextKey = Cardinality(records) + 1
    /\ tracks = <<>>
    /\ currentTrackId = 0
    /\ currentTrackUrl = 0
    /\ isPlaying = FALSE
    /\ isNowPlayingVisible = FALSE
    /\ isUploading = FALSE
    /\ snap = [tracks |-> <<>>, currentTrackId |-> 0, currentTrackUrl |-> 0,
               isPlaying |-> FALSE]
    /\ audio = [src |-> 0, cmd |-> "pause", ok |-> TRUE, caught |-> TRUE]
    /\ nextUrl = 1
    /\ revoked = {}
    /\ reRevoked = {}
    /\ conn = FALSE
    /\ opens = 1
    /\ opening = <<GetAllOp>>
    /\ ops = <<>>
    /\ batches = <<>>
    /\ logged = FALSE
    /\ unhandled = FALSE
    /\ edited = {}
    /\ pending = <<>>
    /\ last = Step("mount", 0, TRUE)
    /\ intents = 0
    /\ editor = [id |-> 0, coverArtFile |-> 0, videoFile |-> 0, effect |-> {},
                 created |-> 0, revoked |-> {}, reRevoked |-> {}]

\* the records are audio files ingested by earlier sessions
Init == InitFrom({Track(i, 1, 0, 0) : i \in StoredKeys})

\* request.onsuccess of the oldest pending indexedDB.open: `db` is set and the
\* waiting call creates its transaction
OpenDone ==
    /\ opening # <<>>
    /\ conn' = TRUE
    /\ ops' = Append(ops, Head(opening))
    /\ opening' = Tail(opening)
    /\ last' = Step("open", 0, TRUE)
    /\ UNCHANGED editor
    /\ UNCHANGED <<opens, pending, intents>>
    /\ UNCHANGED <<db, react, snap, audio, urls, batches, notes>>

\* loadTracks: getAllTracksFromDB() settles
LoadDone(ok) ==
    /\ ops # <<>> /\ Head(ops).kind = "getAll"
    /\ ops' = Tail(ops)
    /\ UNCHANGED idb
    /\ IF ok
       THEN tracks' = GetAll(store) /\ UNCHANGED unhandled
       ELSE unhandled' = TRUE /\ UNCHANGED tracks
    /\ last' = Done(Head(ops), ok)
    /\ UNCHANGED editor
    /\ UNCHANGED pending
    /\ UNCHANGED intents
    /\ UNCHANGED <<db, playback, isNowPlayingVisible, isUploading,
                   snap, audio, urls, batches, logged, edited>>

\* ---- render: commit the pending state, run the effects whose deps changed ----
\* audioRef.current.play().catch(e => console.error(...)); the sink fulfils
\* or rejects the promise
PlayCaught(a, ok) == [a EXCEPT !.cmd = "play", !.ok = ok, !.caught = TRUE]

\* a call on the sink other than play()
Call(a, cmd) == [a EXCEPT !.cmd = cmd, !.ok = TRUE, !.caught = TRUE]

\* the effect dropped: the sink is never bound
BindEffectSkipped(a, url, playing, ok) == a

\* effect [currentTrackUrl, isPlaying]: bind the sink, play when isPlaying
BindEffect(a, url, playing, ok) ==
    IF url # 0
    THEN IF playing
         THEN PlayCaught([a EXCEPT !.src = url], ok)
         ELSE Call([a EXCEPT !.src = url], "src")
    ELSE a

\* effect [isPlaying, currentTrackId]: play or pause the sink
PlayPauseEffect(a, playing, id, ok) ==
    IF playing /\ id # 0 THEN PlayCaught(a, ok) ELSE Call(a, "pause")

Render(ok) ==
    /\ snap # Snapshot
    /\ Revoke(IF snap.currentTrackUrl # currentTrackUrl THEN snap.currentTrackUrl ELSE 0)
    /\ LET bind == snap.currentTrackUrl # currentTrackUrl \/ snap.isPlaying # isPlaying
           playPause == snap.isPlaying # isPlaying \/ snap.currentTrackId # currentTrackId
           a1 == IF bind THEN BindEffect(audio, currentTrackUrl, isPlaying, ok) ELSE audio
           a2 == IF playPause THEN PlayPauseEffect(a1, isPlaying, currentTrackId, ok) ELSE a1
           played == \/ bind /\ currentTrackUrl # 0 /\ isPlaying
                     \/ playPause /\ isPlaying /\ currentTrackId # 0
       IN /\ audio' = a2
          /\ ok \/ played
          /\ last' = Rendered(pending, IF bind THEN currentTrackUrl ELSE 0)
    /\ snap' = Snapshot
    /\ UNCHANGED editor
    /\ pending' = <<>>
    /\ UNCHANGED intents
    /\ UNCHANGED <<db, react, nextUrl, idb, ops, batches, notes>>

\* ---- playback intents ----
\* the test `if (!currentTrackId) return` dropped
PlayPauseUnguarded ==
    /\ isPlaying' = ~isPlaying
    /\ UNCHANGED <<currentTrackId, currentTrackUrl, urls>>

\* handlePlayPause, closed over the rendered currentTrackId
PlayPause ==
    /\ isPlaying' = IF snap.currentTrackId = 0 THEN isPlaying ELSE ~isPlaying
    /\ UNCHANGED <<currentTrackId, currentTrackUrl, urls>>

\* the test `track.id !== currentTrackId` dropped: selecting the current track
\* switches to it again
TrackSelectAlwaysSwitches(id) ==
    IF Find(snap.tracks, id) # NoTrack
    THEN /\ Revoke(snap.currentTrackUrl)
         /\ currentTrackId' = id
         /\ currentTrackUrl' = nextUrl
         /\ nextUrl' = nextUrl + 1
         /\ isPlaying' = TRUE
    ELSE UNCHANGED <<playback, urls>>

\* handleTrackSelect(id), closed over the rendered tracks, currentTrackId and
\* currentTrackUrl
TrackSelect(id) ==
    LET track == Find(snap.tracks, id) IN
    IF track # NoTrack /\ track.id # snap.currentTrackId
    THEN /\ Revoke(snap.currentTrackUrl)
         /\ currentTrackId' = id
         /\ currentTrackUrl' = nextUrl
         /\ nextUrl' = nextUrl + 1
         /\ isPlaying' = TRUE
    ELSE IF track # NoTrack
         THEN PlayPause
         ELSE UNCHANGED <<playback, urls>>

HandleTrackSelect(id) ==
    /\ TrackSelect(id)
    /\ ops' = Disturb(ops)
    /\ opening' = Disturb(opening)
    /\ UNCHANGED <<conn, opens>>
    /\ intents < MaxIntents /\ intents' = intents + 1
    /\ last' = Step("select", id, TRUE)
    /\ UNCHANGED editor
    /\ pending' = Noted(SelectTag(id))
    /\ UNCHANGED <<db, tracks, isNowPlayingVisible, isUploading,
                   snap, audio, batches, notes>>

HandlePlayPause ==
    /\ PlayPause
    /\ ops' = Disturb(ops)
    /\ opening' = Disturb(opening)
    /\ UNCHANGED <<conn, opens>>
    /\ intents < MaxIntents /\ intents' = intents + 1
    /\ last' = Step("toggle", 0, TRUE)
    /\ UNCHANGED editor
    /\ pending' = Noted(ToggleTag)
    /\ UNCHANGED <<db, tracks, isNowPlayingVisible, isUploading,
                   snap, audio, batches, notes>>

\* the modulo dropped: the index stays on the last track instead of wrapping
NextIndexNoWrap(ts, id) ==
    IF FindIndex(ts, id) + 1 >= Len(ts) THEN FindIndex(ts, id) ELSE FindIndex(ts, id) + 1

\* (currentIndex + 1) % tracks.length
NextIndex(ts, id) == (FindIndex(ts, id) + 1) % Len(ts)

\* (currentIndex - 1 + tracks.length) % tracks.length
PrevIndex(ts, id) == (FindIndex(ts, id) - 1 + Len(ts)) % Len(ts)

NextTag ==
    LET ts == snap.tracks IN
    IF Len(ts) = 0 THEN "none"
    ELSE IF Len(ts) = 1 /\ snap.currentTrackId = ts[1].id THEN "restart"
    ELSE SelectTag(ts[NextIndex(ts, snap.currentTrackId) + 1].id)

PrevTag ==
    LET ts == snap.tracks IN
    IF Len(ts) < 2 THEN "none"
    ELSE SelectTag(ts[PrevIndex(ts, snap.currentTrackId) + 1].id)

\* the restart dropped: the sink is left as it was
RestartSkipped(a, ok) == a

\* audioRef.current.currentTime = 0; audioRef.current.play(), the promise
\* left without a catch; the sink fulfils or rejects it
Restart(a, ok) == [a EXCEPT !.cmd = "restart", !.ok = ok, !.caught = FALSE]

\* playNextTrack, closed over the rendered tracks and currentTrackId
NextTrack(ok) ==
    LET ts == snap.tracks IN
    IF Len(ts) = 0
    THEN ok /\ UNCHANGED <<playback, urls, audio>>
    ELSE IF Len(ts) = 1 /\ snap.currentTrackId = ts[1].id
         THEN /\ audio' = Restart(audio, ok)
              /\ UNCHANGED <<playback, urls>>
         ELSE /\ ok
              /\ TrackSelect(ts[NextIndex(ts, snap.currentTrackId) + 1].id)
              /\ UNCHANGED audio

PlayNextTrack(ok) ==
    /\ NextTrack(ok)
    /\ ops' = Disturb(ops)
    /\ opening' = Disturb(opening)
    /\ UNCHANGED <<conn, opens>>
    /\ intents < MaxIntents /\ intents' = intents + 1
    /\ last' = Step("next", 0, TRUE)
    /\ UNCHANGED editor
    /\ pending' = Noted(NextTag)
    /\ UNCHANGED <<db, tracks, isNowPlayingVisible, isUploading,
                   snap, batches, notes>>

\* <audio onEnded={playNextTrack}>: the sink, its play() accepted, reached the
\* end of its source
AudioEnded(ok) ==
    /\ audio.src # 0 /\ audio.cmd \in {"play", "restart"} /\ audio.ok
    /\ NextTrack(ok)
    /\ ops' = Disturb(ops)
    /\ opening' = Disturb(opening)
    /\ UNCHANGED <<conn, opens>>
    /\ intents < MaxIntents /\ intents' = intents + 1
    /\ last' = Step("ended", 0, TRUE)
    /\ UNCHANGED editor
    /\ pending' = Noted(NextTag)
    /\ UNCHANGED <<db, tracks, isNowPlayingVisible, isUploading,
                   snap, batches, notes>>

\* the test `tracks.length < 2` weakened to the empty library
PlayPrevTrackUnguarded ==
    /\ LET ts == snap.tracks IN
       IF Len(ts) < 1
       THEN UNCHANGED <<playback, urls>>
       ELSE TrackSelect(ts[PrevIndex(ts, snap.currentTrackId) + 1].id)
    /\ ops' = Disturb(ops)
    /\ opening' = Disturb(opening)
    /\ UNCHANGED <<conn, opens>>
    /\ intents < MaxIntents /\ intents' = intents + 1
    /\ last' = Step("prev", 0, TRUE)
    /\ UNCHANGED editor
    /\ pending' = Noted(PrevTag)
    /\ UNCHANGED <<db, tracks, isNowPlayingVisible, isUploading,
                   snap, audio, batches, notes>>

\* playPrevTrack, closed over the rendered tracks and currentTrackId
PlayPrevTrack ==
    /\ LET ts == snap.tracks IN
       IF Len(ts) < 2
       THEN UNCHANGED <<playback, urls>>
       ELSE TrackSelect(ts[PrevIndex(ts, snap.currentTrackId) + 1].id)
    /\ ops' = Disturb(ops)
    /\ opening' = Disturb(opening)
    /\ UNCHANGED <<conn, opens>>
    /\ intents < MaxIntents /\ intents' = intents + 1
    /\ last' = Step("prev", 0, TRUE)
    /\ UNCHANGED editor
    /\ pending' = Noted(PrevTag)
    /\ UNCHANGED <<db, tracks, isNowPlayingVisible, isUploading,
                   snap, audio, batches, notes>>

\* Player's onExpand; its button is disabled without a current track
Expand ==
    /\ Find(snap.tracks, snap.currentTrackId) # NoTrack
    /\ isNowPlayingVisible' = TRUE
    /\ intents < MaxIntents /\ intents' = intents + 1
    /\ last' = Step("expand", 0, TRUE)
    /\ UNCHANGED editor
    /\ UNCHANGED pending
    /\ UNCHANGED <<db, tracks, playback, isUploading, snap, audio,
                   urls, idb, ops, batches, notes>>

\* NowPlayingView's onClose
CloseNowPlaying ==
    /\ isNowPlayingVisible /\ Find(snap.tracks, snap.currentTrackId) # NoTrack
    /\ isNowPlayingVisible' = FALSE
    /\ intents < MaxIntents /\ intents' = intents + 1
    /\ last' = Step("close", 0, TRUE)
    /\ UNCHANGED editor
    /\ UNCHANGED pending
    /\ UNCHANGED <<db, tracks, playback, isUploading, snap, audio,
                   urls, idb, ops, batches, notes>>

\* ---- delete ----
\* setCurrentTrackUrl('') dropped: the revoked URL stays the current one
DeleteUrlKeeps(snapUrl, url) == url

\* setCurrentTrackUrl('') inside `if (currentTrackUrl)`
DeleteUrl(snapUrl, url) == IF snapUrl # 0 THEN 0 ELSE url

\* the test dropped: every delete takes the active-track branch
DeletesActiveAlways(id, current) == TRUE

\* `id === currentTrackId`
DeletesActive(id, current) == id = current

\* handleTrackDelete(id) up to its await, closed over the rendered tracks,
\* currentTrackId and currentTrackUrl; the Library offers the rendered tracks
HandleTrackDelete(id) ==
    /\ id \in Ids(snap.tracks)
    /\ IF DeletesActive(id, snap.currentTrackId)
       THEN /\ isPlaying' = FALSE
            /\ currentTrackId' = 0
            /\ audio' = Call([audio EXCEPT !.src = 0], "src")
            /\ Revoke(snap.currentTrackUrl)
            /\ currentTrackUrl' = DeleteUrl(snap.currentTrackUrl, currentTrackUrl)
            /\ isNowPlayingVisible' = FALSE
       ELSE UNCHANGED <<playback, audio, revoked, reRevoked, isNowPlayingVisible>>
    /\ Requests(<<DelOp(id, snap.tracks, DeletesActive(id, snap.currentTrackId),
                        snap.currentTrackUrl)>>)
    /\ UNCHANGED conn
    /\ intents < MaxIntents /\ intents' = intents + 1
    /\ last' = Step("delete", id, TRUE)
    /\ UNCHANGED editor
    /\ pending' = Noted(IF DeletesActive(id, snap.currentTrackId)
                         THEN "deleteActive" ELSE "none")
    /\ UNCHANGED <<db, tracks, isUploading, snap, nextUrl,
                   batches, notes>>

\* deleteTrackFromDB(id) settles; on success the handler goes on to
\* setTracks(tracks.filter(...)) over the tracks it was called with
DeleteDone(ok) ==
    /\ ops # <<>> /\ Head(ops).kind = "del"
    /\ ops' = Tail(ops)
    /\ UNCHANGED idb
    /\ IF ok
       THEN /\ store' = Delete(store, Head(ops).id)
            /\ tracks' = DeleteFilter(Head(ops).tracks, Head(ops).id)
            /\ UNCHANGED unhandled
       ELSE /\ unhandled' = TRUE
            /\ UNCHANGED <<store, tracks>>
    /\ last' = Done(Head(ops), ok)
    /\ UNCHANGED editor
    /\ UNCHANGED pending
    /\ UNCHANGED intents
    /\ UNCHANGED <<nextKey, playback, isNowPlayingVisible, isUploading, snap, audio, urls, batches, logged, edited>>

\* ---- edit ----
\* the `|| originalTrack.*` fallbacks dropped: a field the editor did not
\* supply is written as undefined
MergeDropsOthers(orig, coverArt, video) ==
    [orig EXCEPT !.coverArt = coverArt, !.video = video]

\* the `...originalTrack` spread dropped: the record is built from the
\* editor's data alone
MergeWithoutOriginal(orig, coverArt, video) == Track(orig.id, 0, coverArt, video)

\* { ...originalTrack, coverArt: updatedData.coverArt || originalTrack.coverArt,
\*   video: updatedData.video || originalTrack.video }
Merge(orig, coverArt, video) ==
    [orig EXCEPT !.coverArt = IF coverArt # 0 THEN coverArt ELSE orig.coverArt,
                 !.video = IF video # 0 THEN video ELSE orig.video]

PatchFields(coverArt, video) ==
    (IF coverArt # 0 THEN {"coverArt"} ELSE {}) \cup (IF video # 0 THEN {"video"} ELSE {})

\* handleEditorSave({id, coverArt, video}) up to its await, closed over the
\* rendered tracks
HandleEditorSave(id, coverArt, video) ==
    /\ LET originalTrack == Find(snap.tracks, id) IN
       IF originalTrack = NoTrack
       THEN UNCHANGED <<ops, opening, opens>>
       ELSE Requests(<<PutOp(Merge(originalTrack, coverArt, video),
                             PatchFields(coverArt, video))>>)
    /\ UNCHANGED conn
    /\ intents < MaxIntents /\ intents' = intents + 1
    /\ last' = Step("edit", id, Find(snap.tracks, id) # NoTrack)
    /\ UNCHANGED editor
    /\ UNCHANGED pending
    /\ UNCHANGED <<db, react, snap, audio, urls, batches, notes>>

\* ---- the track editor ----
\* the preview effect of TrackEditorModal: one URL for the stored cover art and
\* one for the stored video, kept in the effect's closure for its cleanup
EditorEffect(e, track) ==
    LET n == (IF track.coverArt # 0 THEN 1 ELSE 0) + (IF track.video # 0 THEN 1 ELSE 0) IN
    [e EXCEPT !.effect = (e.created + 1)..(e.created + n), !.created = @ + n]

\* the cleanup of the preview effect: revokeObjectURL on artUrl and vidUrl
EditorCleanup(e) ==
    [e EXCEPT !.effect = {},
              !.revoked = @ \cup e.effect,
              !.reRevoked = @ \cup (e.effect \cap e.revoked)]

\* setEditingTrackId(null): editingTrack is null, the modal unmounts, its
\* state is dropped and its effect cleaned up
Unmounted(e) ==
    [EditorCleanup(e) EXCEPT !.id = 0, !.coverArtFile = 0, !.videoFile = 0]

\* handleTrackEditRequest(id): the modal mounts on editingTrack and its effect
\* runs
HandleTrackEditRequest(id) ==
    /\ editor.id = 0
    /\ id \in Ids(snap.tracks) /\ Find(tracks, id) # NoTrack
    /\ editor' = EditorEffect([editor EXCEPT !.id = id], Find(tracks, id))
    /\ intents < MaxIntents /\ intents' = intents + 1
    /\ last' = Step("editRequest", id, TRUE)
    /\ UNCHANGED <<db, react, snap, audio, urls, idb, ops, batches, notes, pending>>

\* handleCoverArtChange: a picked file becomes the cover art to save and gets
\* a preview URL
HandleCoverArtChange ==
    /\ editor.id # 0
    /\ editor' = [editor EXCEPT !.coverArtFile = 1, !.created = @ + 1]
    /\ intents < MaxIntents /\ intents' = intents + 1
    /\ last' = Step("pickCoverArt", editor.id, TRUE)
    /\ UNCHANGED <<db, react, snap, audio, urls, idb, ops, batches, notes, pending>>

\* handleVideoChange: the same for the video
HandleVideoChange ==
    /\ editor.id # 0
    /\ editor' = [editor EXCEPT !.videoFile = 1, !.created = @ + 1]
    /\ intents < MaxIntents /\ intents' = intents + 1
    /\ last' = Step("pickVideo", editor.id, TRUE)
    /\ UNCHANGED <<db, react, snap, audio, urls, idb, ops, batches, notes, pending>>

\* handleSave: onSave({id: track.id, coverArt: coverArtFile, video: videoFile})
HandleSave ==
    /\ editor.id # 0
    /\ HandleEditorSave(editor.id, editor.coverArtFile, editor.videoFile)

\* onClose: setEditingTrackId(null)
OnClose ==
    /\ editor.id # 0
    /\ editor' = Unmounted(editor)
    /\ intents < MaxIntents /\ intents' = intents + 1
    /\ last' = Step("editorClose", editor.id, TRUE)
    /\ UNCHANGED <<db, react, snap, audio, urls, idb, ops, batches, notes, pending>>

\* updateTrackInDB(updatedTrack) settles; setEditingTrackId(null) follows the
\* await
EditDone(ok) ==
    /\ ops # <<>> /\ Head(ops).kind = "put"
    /\ ops' = Tail(ops)
    /\ UNCHANGED idb
    /\ IF ok
       THEN /\ store' = Put(store, Head(ops).rec)
            /\ tracks' = MapReplace(tracks, Head(ops).rec)
            /\ edited' = edited \cup {<<Head(ops).id, f>> : f \in Head(ops).patch}
            /\ UNCHANGED unhandled
       ELSE /\ unhandled' = TRUE
            /\ UNCHANGED <<store, tracks, edited>>
    /\ editor' = IF ok THEN Unmounted(editor) ELSE editor
    /\ last' = Done(Head(ops), ok)
    /\ UNCHANGED pending
    /\ UNCHANGED intents
    /\ UNCHANGED <<nextKey, playback, isNowPlayingVisible, isUploading, snap,
                   audio, urls, batches, logged>>

\* ---- ingest ----
\* the records Promise.all resolves to: { ...trackData, id, file } per file, the
\* i-th file of a batch being blob i
NewTracks(ids) == [i \in DOMAIN ids |-> Track(ids[i], i, 0, 0)]

\* setTracks(prevTracks => [...prevTracks, ...newTracks])
AppendTracks(prev, newTracks) == prev \o newTracks

\* handleFilesSelected(files) up to Promise.all: one addTrackToDB per file, all
\* started before the first settles
HandleFilesSelected(n) ==
    /\ isUploading' = TRUE
    /\ batches' = Append(batches, [n |-> n, ids |-> <<>>, files |-> <<>>,
                                   settled |-> 0, failed |-> FALSE])
    /\ Requests([i \in 1 .. n |-> AddOp(Len(batches) + 1, i)])
    /\ UNCHANGED conn
    /\ intents < MaxIntents /\ intents' = intents + 1
    /\ last' = Step("ingest", n, TRUE)
    /\ UNCHANGED editor
    /\ UNCHANGED pending
    /\ UNCHANGED <<db, tracks, playback, isNowPlayingVisible, snap,
                   audio, urls, notes>>

\* the records appended as soon as one file is stored, the others still pending
FirstResolved(p) == ~p.failed

\* await Promise.all(newTracksPromises) resolves with the add settling now: none
\* of the batch was rejected and every other add has settled
AllResolved(p) == ~p.failed /\ p.settled + 1 = p.n

\* one addTrackToDB settles.  Promise.all resolves when the last one has
\* succeeded and rejects at the first failure; the handler's catch logs the
\* rejection and its finally clears isUploading
AddDone(ok) ==
    /\ ops # <<>> /\ Head(ops).kind = "add"
    /\ ops' = Tail(ops)
    /\ UNCHANGED idb
    /\ LET b == Head(ops).batch
           p == batches[b]
       IN IF ok
          THEN /\ store' = store \cup {Track(nextKey, Head(ops).id, 0, 0)}
               /\ nextKey' = KeyAfter(nextKey)
               /\ batches' = [batches EXCEPT ![b].ids = Append(p.ids, nextKey),
                                             ![b].files = Append(p.files, Head(ops).id),
                                             ![b].settled = p.settled + 1]
               /\ IF AllResolved(p)
                  THEN /\ tracks' = AppendTracks(tracks, NewTracks(Append(p.ids, nextKey)))
                       /\ isUploading' = FALSE
                  ELSE UNCHANGED <<tracks, isUploading>>
               /\ UNCHANGED logged
          ELSE /\ batches' = [batches EXCEPT ![b].failed = TRUE,
                                             ![b].settled = p.settled + 1]
               /\ IF ~p.failed
                  THEN logged' = TRUE /\ isUploading' = FALSE
                  ELSE UNCHANGED <<logged, isUploading>>
               /\ UNCHANGED <<db, tracks>>
    /\ last' = Done(Head(ops), ok)
    /\ UNCHANGED editor
    /\ UNCHANGED pending
    /\ UNCHANGED intents
    /\ UNCHANGED <<playback, isNowPlayingVisible, snap, audio,
                   urls, unhandled, edited>>

\* ---- the system ----
\* the ids an intent may name: every key handed out so far, and one never stored
TrackIds == 1 .. nextKey
\* what the editor saves: a picked cover art, or a picked video (blob 1)
Patches == {<<1, 0>>, <<0, 1>>}

\* no store call is waiting for a connection
Ready == opening = <<>>

\* the steps of the system when the connection requested at mount is set
\* before the first intent is handled
Next ==
    \/ OpenDone
    \/ \E ok \in BOOLEAN : LoadDone(ok)
    \/ \E ok \in BOOLEAN : Render(ok)
    \/ \E id \in TrackIds : Ready /\ HandleTrackSelect(id)
    \/ Ready /\ HandlePlayPause
    \/ \E ok \in BOOLEAN : Ready /\ PlayNextTrack(ok)
    \/ Ready /\ PlayPrevTrack
    \/ \E ok \in BOOLEAN : AudioEnded(ok)
    \/ Ready /\ Expand
    \/ Ready /\ CloseNowPlaying
    \/ \E id \in TrackIds : Ready /\ HandleTrackDelete(id)
    \/ \E ok \in BOOLEAN : DeleteDone(ok)
    \/ \E id \in TrackIds, p \in Patches : Ready /\ HandleEditorSave(id, p[1], p[2])
    \/ \E ok \in BOOLEAN : EditDone(ok)
    \/ \E n \in BatchSizes : Ready /\ HandleFilesSelected(n)
    \/ \E ok \in BOOLEAN : AddDone(ok)

\* the steps of the system with intents handled at any time, also while the
\* connection is still being opened
NextOpen ==
    \/ OpenDone
    \/ \E ok \in BOOLEAN : LoadDone(ok)
    \/ \E ok \in BOOLEAN : Render(ok)
    \/ \E id \in TrackIds : HandleTrackSelect(id)
    \/ HandlePlayPause
    \/ \E ok \in BOOLEAN : PlayNextTrack(ok)
    \/ PlayPrevTrack
    \/ \E ok \in BOOLEAN : AudioEnded(ok)
    \/ Expand
    \/ CloseNowPlaying
    \/ \E id \in TrackIds : HandleTrackDelete(id)
    \/ \E ok \in BOOLEAN : DeleteDone(ok)
    \/ \E id \in TrackIds, p \in Patches : HandleEditorSave(id, p[1], p[2])
    \/ \E ok \in BOOLEAN : EditDone(ok)
    \/ \E n \in BatchSizes : HandleFilesSelected(n)
    \/ \E ok \in BOOLEAN : AddDone(ok)

Spec == Init /\ [][Next]_vars

SpecOpen == Init /\ [][NextOpen]_vars

\* the track editor at work on a library whose first record already has a
\* cover art and a video from an earlier session
InitEditor == InitFrom({Track(i, 1, IF i = 1 THEN 1 ELSE 0, IF i = 1 THEN 1 ELSE 0) : i \in StoredKeys})

NextEditor ==
    \/ OpenDone
    \/ \E ok \in BOOLEAN : LoadDone(ok)
    \/ \E ok \in BOOLEAN : Render(ok)
    \/ \E id \in TrackIds : Ready /\ HandleTrackSelect(id)
    \/ \E id \in TrackIds : Ready /\ HandleTrackEditRequest(id)
    \/ HandleCoverArtChange
    \/ HandleVideoChange
    \/ HandleSave
    \/ OnClose
    \/ \E ok \in BOOLEAN : EditDone(ok)

SpecEditor == InitEditor /\ [][NextEditor]_vars

\* the program started on a library of a single record
InitSolo == InitFrom({Track(1, 1, 0, 0)})

SpecSolo == InitSolo /\ [][Next]_vars

\* every store request has settled and every state update is rendered
Settled == InFlight = <<>> /\ snap = Snapshot

StoreIds == {r.id : r \in store}
Idle == currentTrackId = 0 /\ currentTrackUrl = 0 /\ ~isPlaying

\* ---- the claims ----

\* C1: at no point are two audio URLs created by handleTrackSelect unreleased
\* at the same time, in any interleaving of the intents, two intents handled
\* against one render snapshot included.
C1_AtMostOneLiveHandle == Cardinality(Live) <= 1

\* C2: once every operation has settled, currentTrackId is non-null exactly
\* when currentTrackUrl is non-empty.
C2_ActiveHandleConsistency == Settled => ((currentTrackId # 0) <=> (currentTrackUrl # 0))

\* C2 witness: settled with a track active and its URL current, an earlier
\* URL having been released.
C2_Witness ==
    /\ Settled
    /\ currentTrackId # 0 /\ currentTrackUrl # 0
    /\ revoked # {}

\* C3: URL.revokeObjectURL is called at most once on every audio URL.
C3_NoDoubleRelease == reRevoked = {}

\* C4: an audio URL is released only after the sink is unbound from it: the
\* sink's src is never a released URL.
C4_ReleasedOnlyAfterUnbound == audio.src \notin revoked

\* C5: a select of another track met by a delete of the active track on the
\* same render snapshot settles idle with every created URL released.
C5_DeleteDuringSelectEndsIdle ==
    (last.kind = "render" /\ last.batch = <<"switch", "deleteActive">>)
        => (Idle /\ Live = {})

\* C6: once every started mutation has completed (here: and none has failed),
\* the in-memory list holds exactly the persisted records.
C6_MemoryMatchesStore ==
    (InFlight = <<>> /\ ~unhandled /\ ~logged)
        => /\ Ids(tracks) = StoreIds
           /\ \A i \in DOMAIN tracks : tracks[i] \in store

\* C7: a batch in which some inserts failed and others succeeded ends with the
\* stored files' records in the in-memory list and the failure reported.
C7_PartialIngestKeepsSuccesses ==
    \A b \in DOMAIN batches :
        (batches[b].settled = batches[b].n /\ batches[b].failed)
            => /\ logged
               /\ \A i \in DOMAIN batches[b].ids : batches[b].ids[i] \in Ids(tracks)

\* C8: a delete of the active track that completes successfully, no playback
\* intent having been handled meanwhile, ends with no current track, isPlaying
\* false, the sink's src cleared, the track's URL released and the track absent
\* from the store and from the in-memory list.
C8_DeleteActiveResetsToIdle ==
    (last.kind = "del" /\ last.ok /\ last.active /\ last.quiet)
        => /\ currentTrackId = 0
           /\ ~isPlaying
           /\ audio.src = 0
           /\ last.url \in revoked
           /\ last.id \notin StoreIds
           /\ last.id \notin Ids(tracks)

\* C8 witness: such a delete has just completed and left the player idle.
C8_Witness ==
    /\ last.kind = "del" /\ last.ok /\ last.active /\ last.quiet
    /\ last.url \in revoked
    /\ Idle

\* C9: when the store delete of the active track fails, the current track and
\* its URL keep their pre-delete values, the URL is not released, and the
\* rejection does not leave the handler uncaught.
C9_FailedDeleteLeavesStateUnchanged ==
    (last.kind = "del" /\ ~last.ok /\ last.active /\ last.quiet)
        => /\ currentTrackId = last.id
           /\ currentTrackUrl = last.url
           /\ last.url \notin revoked
           /\ ~unhandled

\* C10: no edit the store accepted is overwritten by another edit's record: the
\* persisted record of an id carries every field an accepted edit of that id
\* supplied.
C10_NoStaleOverwrite ==
    \A e \in edited : \A r \in store : r.id = e[1] => r[e[2]] # 0

\* the rendered library and current track are the latest ones
FreshLibrary == snap.tracks = tracks /\ snap.currentTrackId = currentTrackId

\* C11: with at least two tracks, the handlers running on the latest library
\* and the active track at index i of it, next and the sink's ended event make
\* the track at index (i + 1) mod n the current one, previous the track at
\* index (i - 1) mod n.
C11_CircularAdvance ==
    [][(FreshLibrary /\ Len(tracks) >= 2 /\ FindIndex(tracks, currentTrackId) >= 0)
        => LET n == Len(tracks)
               i == FindIndex(tracks, currentTrackId)
           IN /\ last'.kind \in {"next", "ended"}
                    => currentTrackId' = tracks[((i + 1) % n) + 1].id
              /\ last'.kind = "prev"
                    => currentTrackId' = tracks[((i + n - 1) % n) + 1].id]_vars

\* C11 witness: next or the ended event has just wrapped from the last track
\* of the rendered library to the first.
C11_Witness ==
    /\ last.kind \in {"next", "ended"}
    /\ Len(tracks) >= 2 /\ snap.tracks = tracks
    /\ snap.currentTrackId = tracks[Len(tracks)].id
    /\ currentTrackId = tracks[1].id
    /\ pending = <<"switch">>

\* C12: with exactly one track in the library, the current one, and the
\* handler running on the latest library, next and the sink's ended event set
\* the sink's position to 0 and call play() on it, leave currentTrackId,
\* currentTrackUrl and the sink's src as they are, and create or release no URL.
C12_LoopOfOne ==
    [][(/\ FreshLibrary /\ Len(tracks) = 1 /\ currentTrackId = tracks[1].id
        /\ last'.kind \in {"next", "ended"})
        => /\ audio'.cmd = "restart" /\ audio'.src = audio.src
           /\ UNCHANGED <<currentTrackId, currentTrackUrl, nextUrl, revoked, reRevoked>>]_vars

\* C12 witness: the ended event has just restarted the only track.
C12_Witness ==
    /\ last.kind = "ended"
    /\ Len(tracks) = 1 /\ FreshLibrary /\ currentTrackId = tracks[1].id
    /\ audio.cmd = "restart" /\ audio.src = currentTrackUrl /\ currentTrackUrl # 0

\* C13: handled on the latest library, a select of the track that is already
\* the current one is a step of handlePlayPause: isPlaying is flipped,
\* currentTrackId and currentTrackUrl stay, no URL is created or released.
C13_SelectCurrentIsToggle ==
    [][(/\ FreshLibrary /\ currentTrackId # 0
        /\ Find(tracks, currentTrackId) # NoTrack
        /\ last'.kind = "select" /\ last'.id = currentTrackId)
        => /\ PlayPause
           /\ isPlaying' = ~isPlaying
           /\ UNCHANGED <<currentTrackId, currentTrackUrl, nextUrl, revoked, reRevoked>>]_vars

\* C13 witness: a select of the playing current track has just paused it.
C13_Witness ==
    /\ last.kind = "select" /\ last.id = currentTrackId
    /\ FreshLibrary /\ snap.currentTrackUrl = currentTrackUrl
    /\ snap.isPlaying /\ ~isPlaying
    /\ pending = <<"toggle">>

\* C14: the ids the store assigned to ingested files, over all batches, are
\* pairwise distinct and distinct from the ids of the records already stored;
\* every in-memory record carries an id the store handed out, and no two
\* in-memory records share one.
C14_IdsUnique ==
    /\ \A b1, b2 \in DOMAIN batches :
          \A i \in DOMAIN batches[b1].ids : \A j \in DOMAIN batches[b2].ids :
              (<<b1, i>> # <<b2, j>>) => batches[b1].ids[i] # batches[b2].ids[j]
    /\ \A b \in DOMAIN batches :
          \A i \in DOMAIN batches[b].ids : batches[b].ids[i] \notin StoredKeys
    /\ \A i \in DOMAIN tracks : tracks[i].id \in 1 .. (nextKey - 1)
    /\ \A i, j \in DOMAIN tracks : i # j => tracks[i].id # tracks[j].id

\* C14 witness: two batches, in flight together, have both been stored and
\* appended.
C14_Witness ==
    /\ Len(batches) = 2 /\ InFlight = <<>>
    /\ \A b \in DOMAIN batches :
          /\ ~batches[b].failed /\ Len(batches[b].ids) = batches[b].n
          /\ \A i \in DOMAIN batches[b].ids : batches[b].ids[i] \in Ids(tracks)
    /\ batches[1].n = 2 /\ batches[2].n = 2

\* the ids of every record a store insert has completed for
InsertedIds ==
    StoredKeys \cup UNION {{batches[b].ids[i] : i \in DOMAIN batches[b].ids} :
                              b \in DOMAIN batches}

\* C15: the in-memory list changes only in the step in which a store request
\* completes successfully (for an ingest: the batch's last insert, none having
\* failed), never when a mutation is issued or fails, and it never holds a record
\* no store insert has completed for.
C15_NoOptimisticUpdate ==
    [][/\ tracks' # tracks
            => /\ last'.kind \in {"getAll", "add", "del", "put"} /\ last'.ok
               /\ ops # <<>> /\ ops' = Tail(ops)
       /\ (tracks' # tracks /\ last'.kind = "add")
            => LET p == batches'[Head(ops).batch]
               IN ~p.failed /\ p.settled = p.n /\ Len(p.ids) = p.n
       /\ Ids(tracks') \subseteq InsertedIds']_vars

\* C15 witness: an ingest has just completed and put its record in memory while
\* a delete issued meanwhile is still in flight, its track still in memory.
C15_Witness ==
    /\ last.kind = "add" /\ last.ok
    /\ \E b \in DOMAIN batches :
          /\ batches[b].settled = batches[b].n /\ ~batches[b].failed
          /\ \A i \in DOMAIN batches[b].ids : batches[b].ids[i] \in Ids(tracks)
    /\ ops # <<>> /\ Head(ops).kind = "del" /\ Head(ops).id \in Ids(tracks)

\* C16: the record handleEditorSave hands to the store is the record it found
\* in the library with the supplied fields replaced by the patch values and
\* every other field (id, name, file, the unsupplied one of coverArt / video)
\* kept; when the update succeeds exactly that record is the stored one for
\* its id and takes the place of the in-memory record with that id, all other
\* records staying as they were.
C16_EditPreservesUntouched ==
    [][/\ (last'.kind = "edit" /\ last'.ok /\ intents' # intents)
            => \A p \in Patches :
                HandleEditorSave(last'.id, p[1], p[2])
                => LET orig == Find(snap.tracks, last'.id)
                       op == InFlight'[Len(ops') + (IF conn THEN 0 ELSE Len(opening'))]
                   IN /\ Len(InFlight') = Len(InFlight) + 1 /\ op.kind = "put"
                      /\ op.rec.id = orig.id
                      /\ op.rec.name = orig.name
                      /\ op.rec.file = orig.file
                      /\ op.rec.coverArt = (IF p[1] # 0 THEN p[1] ELSE orig.coverArt)
                      /\ op.rec.video = (IF p[2] # 0 THEN p[2] ELSE orig.video)
       /\ (last'.kind = "put" /\ last'.ok /\ ops # <<>> /\ ops' = Tail(ops))
            => LET rec == Head(ops).rec
               IN /\ rec \in store'
                  /\ \A r \in store' : r.id = rec.id => r = rec
                  /\ \A r \in store : r.id # rec.id => r \in store'
                  /\ DOMAIN tracks' = DOMAIN tracks
                  /\ \A i \in DOMAIN tracks :
                        tracks'[i] = IF tracks[i].id = rec.id THEN rec ELSE tracks[i]]_vars

\* C16 witness: an edit supplying one of cover art and video has just been
\* stored for a record that already had the other; the stored and the
\* in-memory record carry both, with the name and file they had.
C16_Witness ==
    /\ last.kind = "put" /\ last.ok
    /\ \E r \in store :
          /\ r.id = last.id /\ r.coverArt # 0 /\ r.video # 0
          /\ r.name = 1 /\ r.file = 1
          /\ Find(tracks, last.id) = r
    /\ Cardinality(edited) = 2

\* C17: an edit for an id that is not in the in-memory library issues no store
\* update and fails: the failure is reported (caught and logged, or the
\* handler's promise rejects).
C17_EditAbsentIsRejected ==
    (last.kind = "edit" /\ ~last.ok)
        => /\ \A i \in DOMAIN InFlight :
                ~(InFlight[i].kind = "put" /\ InFlight[i].id = last.id)
           /\ (logged \/ unhandled)

\* the audio file the record with this id was created with
CreatedWith(id) ==
    IF id \in StoredKeys THEN 1
    ELSE LET b == CHOOSE b \in DOMAIN batches : \E i \in DOMAIN batches[b].ids : batches[b].ids[i] = id
             i == CHOOSE i \in DOMAIN batches[b].ids : batches[b].ids[i] = id
         IN batches[b].files[i]

\* C18: every record in the store and in memory has an id the store assigned at
\* its creation and the audio file (and name) it was created with; the store
\* holds one record per id.
C18_AudioAndIdImmutable ==
    /\ \A r \in store \cup {tracks[i] : i \in DOMAIN tracks} :
          /\ r.id \in InsertedIds
          /\ r.file = CreatedWith(r.id)
          /\ r.name = CreatedWith(r.id)
    /\ \A r1, r2 \in store : r1.id = r2.id => r1 = r2

\* C18 witness: a record ingested with the second file of its batch has been
\* edited and is in the store and in memory, still with that file.
C18_Witness ==
    \E r \in store :
        /\ r.id \notin StoredKeys /\ r.file = 2
        /\ r.coverArt # 0 \/ r.video # 0
        /\ Find(tracks, r.id) = r

\* C19: whenever the sink has rejected a play command, at whichever place the
\* command was given (the two effects, the restart of a one-track library),
\* the rejection was caught, and (no later update pending) isPlaying,
\* currentTrackId and currentTrackUrl are as they were when play was commanded.
C19_PlayRejectionCaught ==
    (audio.cmd \in {"play", "restart"} /\ ~audio.ok)
        => /\ audio.caught
           /\ snap = Snapshot
                => /\ currentTrackId # 0 /\ currentTrackUrl = audio.src
                   /\ audio.cmd = "play" => isPlaying

\* C20: the database open is requested at most once, whatever store calls are
\* made and however many are started before the first open has succeeded.
C20_OpenedOnce == opens <= 1

\* C21: handled on the latest currentTrackId, a toggle with no current track
\* changes nothing of the playback state (isPlaying, currentTrackId,
\* currentTrackUrl, the sink, the URLs, the now-playing view); with a current
\* track it flips isPlaying and leaves the rest.
C21_ToggleNoOpWhenIdle ==
    [][(last'.kind = "toggle" /\ snap.currentTrackId = currentTrackId)
        => /\ UNCHANGED <<currentTrackId, currentTrackUrl, nextUrl, revoked, reRevoked,
                          audio, isNowPlayingVisible, tracks>>
           /\ isPlaying' = (IF currentTrackId = 0 THEN isPlaying ELSE ~isPlaying)]_vars

\* C21 witness: a toggle has just been handled with the library loaded and no
\* track current, and nothing is playing.
C21_Witness ==
    /\ last.kind = "toggle"
    /\ Len(tracks) >= 2 /\ snap = Snapshot
    /\ currentTrackId = 0 /\ currentTrackUrl = 0 /\ ~isPlaying /\ audio.src = 0

\* C22: handled on the latest library, next and previous with no track in the
\* library, and previous with fewer than two tracks, change no state: not the
\* playback state, the library, the sink, any URL or the store.
C22_AdvanceNoOp ==
    [][(/\ snap.tracks = tracks
        /\ \/ Len(tracks) = 0 /\ last'.kind \in {"next", "prev"}
           \/ Len(tracks) < 2 /\ last'.kind = "prev")
        => UNCHANGED <<react, snap, audio, urls, db>>]_vars

\* C22 witness: previous has just been handled with the only track of the
\* library current and playing, and it still is.
C22_Witness ==
    /\ last.kind = "prev"
    /\ Len(tracks) = 1 /\ snap = Snapshot
    /\ currentTrackId = tracks[1].id /\ isPlaying /\ audio.src = currentTrackUrl
    /\ audio.cmd = "play"

\* C23: handled on the latest render, a select of a track that is in the
\* library and is not the current one releases the current URL (if any),
\* creates a new URL and leaves currentTrackId the selected id, currentTrackUrl
\* the new, unreleased URL and isPlaying true; the render that follows binds
\* the sink to the new URL and calls play() on it.
C23_SelectSwitches ==
    [][/\ (/\ last'.kind = "select"
            /\ FreshLibrary /\ snap.currentTrackUrl = currentTrackUrl
            /\ Find(tracks, last'.id) # NoTrack /\ last'.id # currentTrackId)
            => /\ currentTrackId' = last'.id
               /\ currentTrackUrl' = nextUrl /\ nextUrl' = nextUrl + 1
               /\ currentTrackUrl' \notin revoked'
               /\ currentTrackUrl # 0 => currentTrackUrl \in revoked'
               /\ isPlaying'
       /\ (last'.kind = "render" /\ last.kind = "select" /\ pending = <<"switch">>)
            => /\ audio'.src = currentTrackUrl /\ currentTrackUrl # 0
               /\ audio'.cmd = "play"]_vars

\* C23 witness: the render after a switch from one track to another has bound
\* the sink to the new URL and called play(); the earlier URL is released.
C23_Witness ==
    /\ last.kind = "render" /\ last.batch = <<"switch">>
    /\ currentTrackId # 0 /\ isPlaying
    /\ audio.src = currentTrackUrl /\ audio.cmd = "play"
    /\ revoked # {} /\ currentTrackUrl \notin revoked

\* the ids whose record a completed store delete has removed
DeletedIds == InsertedIds \ StoreIds

\* C24: an id whose delete has completed is absent from the in-memory library,
\* in every interleaving with other deletes, ingests and edits in flight.
C24_DeletedStaysAbsent == \A id \in DeletedIds : id \notin Ids(tracks)

\* C25: the render that commits a toggle of the current track (by
\* handlePlayPause or by a select of the current track) and nothing else does
\* not assign the sink's src, which would reload the source and reset its
\* position; it only calls play() or pause().
C25_ToggleIsNotReload ==
    (last.kind = "render" /\ last.batch = <<"toggle">>)
        => /\ last.url = 0
           /\ audio.cmd \in {"play", "pause"}

\* C26: every handle a view materializes is released exactly once by the time
\* the view is torn down: when the track editor is closed, every preview URL it
\* created (for the stored cover art and video, and for each picked file) has
\* been revoked, and none was revoked twice
C26_EditorHandlesReleased ==
    editor.id = 0
        => /\ \A u \in 1..editor.created : u \in editor.revoked
           /\ editor.reRevoked = {}

\* C27: once nothing is in flight and the render is up to date, a non-null
\* currentTrackId is the id of a record of the in-memory library
C27_ActiveIsInLibrary ==
    (Settled /\ currentTrackId # 0) => currentTrackId \in Ids(tracks)

\* C28: while the last command given to the sink is play, isPlaying is true
C28_PlayingWhilePlayCommanded ==
    (snap = Snapshot /\ audio.cmd \in {"play", "restart"}) => isPlaying

\* C29: once every ingest batch has settled and nothing is in flight, the
\* in-memory library is in the order getAll returns, ascending id
C29_LibraryInStoreOrder ==
    (Settled /\ batches # <<>>)
        => \A i, j \in DOMAIN tracks : i < j => tracks[i].id < tracks[j].id

\* C30: a delete of a track that is not the active one, issued on an up-to-date
\* render, leaves currentTrackId, currentTrackUrl, isPlaying, the sink and the
\* now-playing visibility as they are and releases no URL, both when it is
\* issued and when it completes
C30_DeleteOtherKeepsPlayback ==
    [][(\/ /\ last'.kind = "delete"
            /\ snap.currentTrackId = currentTrackId
            /\ last'.id # currentTrackId
        \/ /\ last'.kind = "del" /\ intents' = intents
            /\ ~last'.active)
        => UNCHANGED <<playback, audio, isNowPlayingVisible, revoked, reRevoked>>]_vars

\* C30 witness: the delete of another track has completed while a track is
\* playing, its URL bound to the sink and nothing released
C30_Witness ==
    /\ last.kind = "del" /\ last.ok /\ ~last.active
    /\ last.id \notin Ids(tracks)
    /\ currentTrackId \in Ids(tracks) /\ currentTrackUrl \in Live
    /\ isPlaying /\ audio.src = currentTrackUrl
    /\ revoked = {}

====
